---- MODULE Spec2Model ----
(***************************************************************************)
(* probe-rs-cli-util/src/logging.rs: the logging and crash-reporting       *)
(* facility of the probe-rs command line tools.                            *)
(*                                                                         *)
(* The state is the three process-wide statics (MAX_WINDOW_WIDTH,          *)
(* PROGRESS_BAR, LOG), the logger installed by init, the two environment   *)
(* variables the module reads, and for every thread the position it has    *)
(* reached in the function it is running.  A step of a thread is one       *)
(* access to shared state: an atomic load or store, a lock acquisition,    *)
(* or the work done under a lock up to its release.                        *)
(***************************************************************************)
EXTENDS Integers, Sequences, FiniteSets, TLC

VARIABLES
    RUST_LOG,          \* [set, dirs]: the directives env_logger reads from $RUST_LOG
    PROBE_RS_SENTRY,   \* [set, value]: $PROBE_RS_SENTRY
    logger,            \* [installed, console, sentry]: what CombinedLogger::init installed
    MAX_LOG_LEVEL_FILTER, \* the log crate's global maximum level, read by log::log!
    MAX_WINDOW_WIDTH,  \* AtomicUsize
    PROGRESS_BAR,      \* the Option<Arc<ProgressBar>> inside the RwLock
    pbHolder,          \* thread holding PROGRESS_BAR's write lock, or None
    pbPoisoned,        \* PROGRESS_BAR's poison flag
    LOG,               \* the Vec<Breadcrumb> inside the RwLock
    logHolder,         \* thread holding LOG's write lock, or None
    logPoisoned,       \* LOG's poison flag
    finished,          \* progress bars whose is_finished() is true
    pc,                \* per thread: position in the running function
    op,                \* per thread: the running public call and its arguments
    max_width,         \* per thread: local of max_target_width / the format closure
    pending,           \* per thread: what log_guard.drain(..) still has to yield
    lines,             \* per thread: console lines written by the running call
    hints,             \* per thread: println calls ask_to_log_crash has still to make
    result,            \* per thread: value returned by the running call
    client,            \* per thread: the sentry ClientInitGuard (_guard) is alive
    scope,             \* per thread: tags set on the sentry scope by the running call
    stdinReads,        \* per thread: read_line calls made by the running call
    input,             \* per thread: what the last read_line of the running call returned
    crumbs,            \* per thread: breadcrumbs the running call pushed or forwarded
    flow,              \* per thread: the steps the running capture call has taken, in order
    nextId,            \* timestamp source: number of the next breadcrumb
    forwarded,         \* breadcrumbs handed to sentry::add_breadcrumb, in order
    calls,             \* number of public calls started so far
    lastCell,          \* the set/clear call that last acquired PROGRESS_BAR
    lastWidth          \* the width the last call of max_target_width returned

vars == <<RUST_LOG, PROBE_RS_SENTRY, logger, MAX_LOG_LEVEL_FILTER, MAX_WINDOW_WIDTH, PROGRESS_BAR,
          pbHolder, pbPoisoned, LOG, logHolder, logPoisoned, finished, pc, op,
          max_width, pending, lines, hints, result, client, scope,
          stdinReads, input, crumbs, flow, nextId, forwarded, calls, lastCell,
          lastWidth>>

----------------------------------------------------------------------------
(* Bounds of the model *)

\* public calls started in one behaviour
MaxCalls == 5
Threads == {"t1", "t2"}
Widgets == {"w1", "w2"}
None == "none"

----------------------------------------------------------------------------
(* log::Level and log::LevelFilter *)

Off == 0
Error == 1
Warn == 2
Info == 3
Debug == 4
Trace == 5
Levels == Error..Trace
LevelFilters == Off..Trace

\* Option<Level> as passed to init
NoLevel == [some |-> FALSE, level |-> Off]
SomeLevel(l) == [some |-> TRUE, level |-> l]

\* Level::to_level_filter
to_level_filter(l) == l

----------------------------------------------------------------------------
(* Strings are sequences of characters *)

Core == <<"c", "o", "r", "e">>
CoreFlash == <<"c", "o", "r", "e", ":", ":", "f">>
Flash == <<"f", "l", "a", "s", "h">>
ProbeArm == <<"p", "r", "o", "b", "e", ":", ":", "a", "r", "m">>
Targets == {Core, CoreFlash, Flash, ProbeArm}

\* str::starts_with
starts_with(s, p) == Len(p) <= Len(s) /\ SubSeq(s, 1, Len(p)) = p


----------------------------------------------------------------------------
(* env_logger's filter, as init configures it *)

NoName == <<>>
Directive(n, l) == [name |-> n, level |-> l]

\* env_logger filter::Builder::filter: one directive per name, the later wins
insert_directive(dirs, d) ==
    IF \E i \in 1..Len(dirs) : dirs[i].name = d.name
    THEN [i \in 1..Len(dirs) |-> IF dirs[i].name = d.name THEN d ELSE dirs[i]]
    ELSE Append(dirs, d)

\* Builder::filter_level
filter_level(dirs, l) == insert_directive(dirs, Directive(NoName, l))

\* Builder::parse_filters: every directive of the spec is inserted in turn
RECURSIVE parse_filters(_, _)
parse_filters(dirs, spec) ==
    IF spec = <<>> THEN dirs
    ELSE parse_filters(insert_directive(dirs, Head(spec)), Tail(spec))

\* the stable sort by name length done by Builder::build
RECURSIVE sort_by_len(_)
sort_by_len(dirs) ==
    IF dirs = <<>> THEN <<>>
    ELSE LET d == dirs[Len(dirs)]
             sorted == sort_by_len(SubSeq(dirs, 1, Len(dirs) - 1))
             k == Cardinality({i \in 1..Len(sorted) :
                                 Len(sorted[i].name) <= Len(d.name)})
         IN  SubSeq(sorted, 1, k) \o <<d>> \o SubSeq(sorted, k + 1, Len(sorted))

\* Builder::build
build(dirs) ==
    IF dirs = <<>> THEN <<Directive(NoName, Error)>> ELSE sort_by_len(dirs)

\* Filter::enabled: the last (longest) directive whose name starts the target decides
RECURSIVE enabled(_, _, _)
enabled(dirs, level, target) ==
    IF dirs = <<>> THEN FALSE
    ELSE LET d == dirs[Len(dirs)]
         IN  IF d.name # NoName /\ ~starts_with(target, d.name)
             THEN enabled(SubSeq(dirs, 1, Len(dirs) - 1), level, target)
             ELSE level <= d.level

\* Logger::filter: the most verbose level of any directive
filter(dirs) ==
    IF dirs = <<>> THEN Off
    ELSE CHOOSE m \in LevelFilters :
           /\ \E i \in 1..Len(dirs) : dirs[i].level = m
           /\ \A i \in 1..Len(dirs) : dirs[i].level <= m

\* ShareableLogger::log: enabled() on the maximum level, then env_logger's own match
ShareableLogger_log(dirs, rec) ==
    /\ rec.level <= filter(dirs)
    /\ enabled(dirs, rec.level, rec.target)

\* a builder that $RUST_LOG, when set, configures alone
log_builder_override(level) ==
    IF RUST_LOG.set THEN parse_filters(<<>>, RUST_LOG.dirs)
    ELSE IF level.some THEN filter_level(<<>>, to_level_filter(level.level))
    ELSE filter_level(<<>>, Warn)

\* init, lines 112-124: the console sink's builder
log_builder(level) ==
    LET base == IF level.some
                THEN filter_level(<<>>, to_level_filter(level.level))
                ELSE filter_level(<<>>, Warn)
    IN  IF RUST_LOG.set THEN parse_filters(base, RUST_LOG.dirs) ELSE base

\* init, lines 151-154: the sentry sink's builder
sentry_builder == filter_level(<<>>, Debug)

\* CombinedLogger::init sets log::max_level to the most verbose of its loggers
max_level(lg) ==
    IF filter(lg.console) >= filter(lg.sentry)
    THEN filter(lg.console) ELSE filter(lg.sentry)

NoLogger == [installed |-> FALSE, console |-> <<>>, sentry |-> <<>>]

----------------------------------------------------------------------------
(* The environment and the initial state *)

\* values of $RUST_LOG: unset, "", "debug", "core=trace", "error,core=debug",
\* "core=info,core::f=trace", "info,trace"
RustLogValues ==
    { [set |-> FALSE, dirs |-> <<>>],
      [set |-> TRUE, dirs |-> <<>>],
      [set |-> TRUE, dirs |-> <<Directive(NoName, Debug)>>],
      [set |-> TRUE, dirs |-> <<Directive(Core, Trace)>>],
      [set |-> TRUE, dirs |-> <<Directive(NoName, Error), Directive(Core, Debug)>>],
      [set |-> TRUE, dirs |-> <<Directive(Core, Info), Directive(CoreFlash, Trace)>>],
      [set |-> TRUE, dirs |-> <<Directive(NoName, Info), Directive(NoName, Trace)>>] }

StrTrue == <<"t", "r", "u", "e">>
StrFalse == <<"f", "a", "l", "s", "e">>

\* values of $PROBE_RS_SENTRY: unset, "true", "false", "True", "1", ""
SentryValues ==
    { [set |-> FALSE, value |-> <<>>] } \cup
    { [set |-> TRUE, value |-> v] :
        v \in {StrTrue, StrFalse, <<"T", "r", "u", "e">>, <<"1">>, <<>>} }

\* a thread that runs no call of the facility
IdleLocals ==
    /\ pc = [t \in Threads |-> "idle"]
    /\ op = [t \in Threads |-> [name |-> "none", arg |-> None]]
    /\ max_width = [t \in Threads |-> 0]
    /\ pending = [t \in Threads |-> <<>>]
    /\ lines = [t \in Threads |-> <<>>]
    /\ hints = [t \in Threads |-> 0]
    /\ result = [t \in Threads |-> None]
    /\ client = [t \in Threads |-> FALSE]
    /\ scope = [t \in Threads |-> {}]
    /\ stdinReads = [t \in Threads |-> 0]
    /\ input = [t \in Threads |-> None]
    /\ crumbs = [t \in Threads |-> <<>>]
    /\ flow = [t \in Threads |-> <<>>]

\* the statics as lines 25-31 construct them
InitStatics ==
    /\ logger = NoLogger
    /\ MAX_LOG_LEVEL_FILTER = Off
    /\ MAX_WINDOW_WIDTH = 0
    /\ PROGRESS_BAR = None
    /\ pbHolder = None
    /\ pbPoisoned = FALSE
    /\ LOG = <<>>
    /\ logHolder = None
    /\ logPoisoned = FALSE
    /\ finished = {}
    /\ nextId = 1
    /\ forwarded = <<>>
    /\ calls = 0
    /\ lastCell = None
    /\ lastWidth = 0

\* a guard that is never dropped: the lock stays with its holder
unlock_never(holder) == holder

\* a write guard is dropped: the lock is free
unlock(holder) == None

envVars == <<RUST_LOG, PROBE_RS_SENTRY>>
loggerVars == <<logger, MAX_LOG_LEVEL_FILTER>>
widthVars == <<MAX_WINDOW_WIDTH, lastWidth>>
pbVars == <<PROGRESS_BAR, pbHolder, pbPoisoned, lastCell>>
logVars == <<LOG, logHolder, logPoisoned, nextId, forwarded>>

\* a thread starts a public call
Start(t, name, arg) ==
    /\ pc[t] = "idle"
    /\ calls < MaxCalls
    /\ calls' = calls + 1
    /\ op' = [op EXCEPT ![t] = [name |-> name, arg |-> arg]]

\* the CombinedLogger that init builds, lines 176-179
comblog(level) ==
    [installed |-> TRUE,
     console |-> build(log_builder(level)),
     sentry |-> build(sentry_builder)]

\* pub fn init.  CombinedLogger::init is set_max_level(comblog.level())
\* followed by set_boxed_logger(comblog), which fails once a logger is
\* installed; init unwraps the failure, line 180.
init(t, level) ==
    /\ Start(t, "init", level)
    /\ MAX_LOG_LEVEL_FILTER' = max_level(comblog(level))
    /\ IF logger.installed
       THEN /\ pc' = [pc EXCEPT ![t] = "panicked"]
            /\ UNCHANGED logger
       ELSE /\ logger' = comblog(level)
            /\ pc' = [pc EXCEPT ![t] = "done"]
    /\ UNCHANGED <<envVars, widthVars, pbVars, logVars, finished,
                   max_width, pending, lines, hints, result, client, scope,
                   stdinReads, input, crumbs, flow>>

----------------------------------------------------------------------------
(* The progress cell: set_progress_bar, clear_progress_bar *)

\* pub fn set_progress_bar is called
set_progress_bar(t, progress) ==
    /\ Start(t, "set_progress_bar", progress)
    /\ pc' = [pc EXCEPT ![t] = "a_lock"]
    /\ UNCHANGED <<envVars, loggerVars, widthVars, pbVars, logVars, finished,
                   max_width, pending, lines, hints, result, client, scope, stdinReads, input, crumbs, flow>>

\* pub fn clear_progress_bar is called
clear_progress_bar(t) ==
    /\ Start(t, "clear_progress_bar", None)
    /\ pc' = [pc EXCEPT ![t] = "a_lock"]
    /\ UNCHANGED <<envVars, loggerVars, widthVars, pbVars, logVars, finished,
                   max_width, pending, lines, hints, result, client, scope, stdinReads, input, crumbs, flow>>

\* PROGRESS_BAR.write().unwrap() of set_progress_bar and clear_progress_bar
CellLock(t) ==
    /\ pc[t] = "a_lock"
    /\ pbHolder = None
    /\ IF pbPoisoned
       THEN /\ pc' = [pc EXCEPT ![t] = "panicked"]
            /\ UNCHANGED <<pbHolder, lastCell>>
       ELSE /\ pbHolder' = t
            /\ lastCell' = op[t].arg
            /\ pc' = [pc EXCEPT ![t] = "a_store"]
    /\ UNCHANGED <<envVars, loggerVars, widthVars, PROGRESS_BAR, pbPoisoned,
                   logVars, finished, op, max_width, pending, lines, hints,
                   result, client, scope, stdinReads, input, crumbs, flow, calls>>

\* an assignment that keeps a bar that is already registered
assign_keeps(old, new) == IF old # None /\ new # None THEN old ELSE new

\* lines 186 and 192: *guard = Some(progress), *guard = None
assign(old, new) == new

\* the assignment under the guard, and the guard is dropped
CellStore(t) ==
    /\ pc[t] = "a_store"
    /\ PROGRESS_BAR' = assign(PROGRESS_BAR, op[t].arg)
    /\ pbHolder' = unlock(pbHolder)
    /\ pc' = [pc EXCEPT ![t] = "done"]
    /\ UNCHANGED <<envVars, loggerVars, widthVars, pbPoisoned, lastCell,
                   logVars, finished, op, max_width, pending, lines, hints,
                   result, client, scope, stdinReads, input, crumbs, flow, calls>>

\* the owner of a progress bar finishes it: is_finished() is true from then on
Finish(w) ==
    /\ w \notin finished
    /\ finished' = finished \cup {w}
    /\ UNCHANGED <<envVars, loggerVars, widthVars, pbVars, logVars, pc, op,
                   max_width, pending, lines, hints, result, client, scope, stdinReads, input, crumbs, flow,
                   calls>>

----------------------------------------------------------------------------
(* println and eprintln, also as called by print_uuid and ask_to_log_crash *)

Messages == {"msg"}
CaptureFns == {"capture_error", "capture_anyhow", "capture_panic"}

\* a line on the console: how it got there, and what it says
Line(route, w, kind, text) ==
    [route |-> route, widget |-> w, kind |-> kind, text |-> text]

\* every direct write going to stdout
Chan_stdout(t) == "stdout"

\* the stream println!/eprintln! of the running call writes to
Chan(t) == IF op[t].name = "eprintln" THEN "stderr" ELSE "stdout"

\* an acknowledgment that leaves the identifier out
Message_fixed(t) ==
    IF op[t].name \in CaptureFns THEN Line("", None, "uuid", "")
    ELSE IF op[t].name = "ask_to_log_crash" THEN Line("", None, "hint", hints[t])
    ELSE Line("", None, "message", op[t].arg)

\* the message handed to println/eprintln by the running call
Message(t) ==
    IF op[t].name \in CaptureFns THEN Line("", None, "uuid", result[t].uuid)
    ELSE IF op[t].name = "ask_to_log_crash" THEN Line("", None, "hint", hints[t])
    ELSE Line("", None, "message", op[t].arg)

\* the line as written directly with println!/eprintln!
Direct(t) == [Message(t) EXCEPT !.route = Chan(t)]

\* the line as written with pb.println
Above(t, pb) == [Message(t) EXCEPT !.route = "above", !.widget = pb]

\* a write that takes no notice of the bar
write_line_direct(t, pb) == Direct(t)

\* lines 359-366 and 342-349: above a bar that is not finished, directly otherwise
write_line(t, pb) ==
    IF pb # None /\ pb \notin finished THEN Above(t, pb) ELSE Direct(t)

\* a guard that is leaked: the client stays initialised after the call
dropped_leaked(guard) == guard

\* the ClientInitGuard _guard goes out of scope: the client is released
dropped(guard) == FALSE

\* where control goes when println returns to its caller
AfterPrintln(t) ==
    IF op[t].name \in CaptureFns
    THEN \* print_uuid has printed; the capture function returns and drops _guard
         /\ pc' = [pc EXCEPT ![t] = "done"]
         /\ client' = [client EXCEPT ![t] = dropped(@)]
         /\ flow' = [flow EXCEPT ![t] = Append(@, "ack")]
         /\ UNCHANGED hints
    ELSE IF op[t].name = "ask_to_log_crash"
    THEN /\ hints' = [hints EXCEPT ![t] = @ - 1]
         /\ pc' = [pc EXCEPT ![t] = IF hints[t] > 1 THEN "p_try" ELSE "q_read"]
         /\ UNCHANGED <<client, flow>>
    ELSE /\ pc' = [pc EXCEPT ![t] = "done"]
         /\ UNCHANGED <<client, hints, flow>>

\* pub fn println is called
println(t, message) ==
    /\ Start(t, "println", message)
    /\ pc' = [pc EXCEPT ![t] = "p_try"]
    /\ UNCHANGED <<envVars, loggerVars, widthVars, pbVars, logVars, finished,
                   max_width, pending, lines, hints, result, client, scope, stdinReads, input, crumbs, flow>>

\* pub fn eprintln is called
eprintln(t, message) ==
    /\ Start(t, "eprintln", message)
    /\ pc' = [pc EXCEPT ![t] = "p_try"]
    /\ UNCHANGED <<envVars, loggerVars, widthVars, pbVars, logVars, finished,
                   max_width, pending, lines, hints, result, client, scope, stdinReads, input, crumbs, flow>>

\* PROGRESS_BAR.try_write(): Ok(guard), Err(Poisoned(guard)) or Err(WouldBlock);
\* on WouldBlock the else branch writes the line directly
TryWrite(t) ==
    /\ pc[t] = "p_try"
    /\ IF pbHolder = None
       THEN /\ pbHolder' = t
            /\ pc' = [pc EXCEPT ![t] = IF pbPoisoned THEN "p_poisoned" ELSE "p_locked"]
            /\ UNCHANGED <<lines, client, hints, flow>>
       ELSE /\ lines' = [lines EXCEPT ![t] = Append(@, Direct(t))]
            /\ AfterPrintln(t)
            /\ UNCHANGED pbHolder
    /\ UNCHANGED <<envVars, loggerVars, widthVars, PROGRESS_BAR, pbPoisoned,
                   lastCell, logVars, finished, op, max_width, pending, result,
                   scope, stdinReads, input, crumbs, calls>>

\* the match under the guard: above an unfinished bar, or directly; the guard is dropped
WriteLocked(t) ==
    /\ pc[t] = "p_locked"
    /\ lines' = [lines EXCEPT ![t] = Append(@, write_line(t, PROGRESS_BAR))]
    /\ pbHolder' = unlock(pbHolder)
    /\ AfterPrintln(t)
    /\ UNCHANGED <<envVars, loggerVars, widthVars, PROGRESS_BAR, pbPoisoned,
                   lastCell, logVars, finished, op, max_width, pending, result,
                   scope, stdinReads, input, crumbs, calls>>

\* the else branch while the Err of a poisoned lock still holds the guard
WritePoisoned(t) ==
    /\ pc[t] = "p_poisoned"
    /\ lines' = [lines EXCEPT ![t] = Append(@, Direct(t))]
    /\ pbHolder' = unlock(pbHolder)
    /\ AfterPrintln(t)
    /\ UNCHANGED <<envVars, loggerVars, widthVars, PROGRESS_BAR, pbPoisoned,
                   lastCell, logVars, finished, op, max_width, pending, result,
                   scope, stdinReads, input, crumbs, calls>>

----------------------------------------------------------------------------
(* A log call: log::log! through CombinedLogger into the two sinks *)

\* what a record's arguments do when formatted: yield the text, or panic
Args == {"text", "panics"}
Records == [level : Levels, target : Targets, args : Args]

\* lines 160-166: log::Level to sentry::Level
sentry_level(l) ==
    CASE l = Error -> "error"
      [] l = Warn -> "warning"
      [] l = Info -> "info"
      [] l = Debug -> "debug"
      [] l = Trace -> "debug"

\* lines 159-171
Breadcrumb(rec, now) ==
    [timestamp |-> now, level |-> sentry_level(rec.level),
     category |-> rec.target, message |-> rec.args]

\* where a log call continues once the console sink is done with the record
ToSentry(t, rec) ==
    IF ShareableLogger_log(logger.sentry, rec) THEN "s_lock" ELSE "done"

\* log::log! is called: the check against log::max_level() in the macro,
\* CombinedLogger::log with its own level check, the first sink
log(t, rec) ==
    /\ Start(t, "log", rec)
    /\ pc' = [pc EXCEPT ![t] =
                IF rec.level > MAX_LOG_LEVEL_FILTER THEN "done"
                ELSE IF ~logger.installed \/ rec.level > max_level(logger) THEN "done"
                ELSE IF ShareableLogger_log(logger.console, rec) THEN "c_load"
                ELSE ToSentry(t, rec)]
    /\ UNCHANGED <<envVars, loggerVars, widthVars, pbVars, logVars, finished,
                   max_width, pending, lines, hints, result, client, scope, stdinReads, input, crumbs, flow>>

\* max_target_width, line 47: MAX_WINDOW_WIDTH.load
WidthLoad(t) ==
    /\ pc[t] = "c_load"
    /\ max_width' = [max_width EXCEPT ![t] = MAX_WINDOW_WIDTH]
    /\ pc' = [pc EXCEPT ![t] = "c_store"]
    /\ UNCHANGED <<envVars, loggerVars, widthVars, pbVars, logVars, finished,
                   op, pending, lines, hints, result, client, scope, stdinReads, input, crumbs, flow, calls>>

\* a width that is the length of the target, whatever was observed before
max_target_width_len(max_width_, target) == Len(target)

\* max_target_width, lines 48-53: the value returned for the width loaded
max_target_width(max_width_, target) ==
    IF max_width_ < Len(target) THEN Len(target) ELSE max_width_

\* max_target_width, lines 48-53: the store if the target is longer, and the return
WidthStore(t) ==
    /\ pc[t] = "c_store"
    /\ IF max_width[t] < Len(op[t].arg.target)
       THEN MAX_WINDOW_WIDTH' = Len(op[t].arg.target)
       ELSE UNCHANGED MAX_WINDOW_WIDTH
    /\ max_width' = [max_width EXCEPT ![t] = max_target_width(@, op[t].arg.target)]
    /\ lastWidth' = max_target_width(max_width[t], op[t].arg.target)
    /\ pc' = [pc EXCEPT ![t] = "c_lock"]
    /\ UNCHANGED <<envVars, loggerVars, pbVars, logVars, finished,
                   op, pending, lines, hints, result, client, scope,
                   stdinReads, input, crumbs, flow, calls>>

\* line 139: PROGRESS_BAR.write().unwrap()
ConsoleLock(t) ==
    /\ pc[t] = "c_lock"
    /\ pbHolder = None
    /\ IF pbPoisoned
       THEN /\ pc' = [pc EXCEPT ![t] = "panicked"]
            /\ UNCHANGED pbHolder
       ELSE /\ pbHolder' = t
            /\ pc' = [pc EXCEPT ![t] = "c_print"]
    /\ UNCHANGED <<envVars, loggerVars, widthVars, PROGRESS_BAR, pbPoisoned,
                   lastCell, logVars, finished, op, max_width, pending, lines,
                   hints, result, client, scope, stdinReads, input, crumbs, flow, calls>>

\* colored_level, lines 57-65: the label of a level (the colour is left out)
colored_level(level) ==
    CASE level = Trace -> <<"T", "R", "A", "C", "E">>
      [] level = Debug -> <<"D", "E", "B", "U", "G">>
      [] level = Info -> <<" ", "I", "N", "F", "O">>
      [] level = Warn -> <<" ", "W", "A", "R", "N">>
      [] level = Error -> <<"E", "R", "R", "O", "R">>

\* a value that is written as it is, without padding
Padded_none(value, width) == value

\* Padded's Display, line 41: "{: <width$}", left-aligned and filled with spaces
Padded(value, width) ==
    value \o [i \in 1..(width - Len(value)) |-> " "]

\* the text record.args() yields when it is formatted
Display(args) == <<"r", "e", "t", "r", "y", " ", "1", "/", "3">>

\* the seven spaces the format string of lines 141 and 143 starts with
Indent == <<" ", " ", " ", " ", " ", " ", " ">>

\* format!("       {} {} > {}", level, target, record.args()), lines 141 and 143
console_format(rec, width) ==
    Indent \o colored_level(rec.level) \o <<" ">> \o Padded(rec.target, width)
    \o <<" ", ">", " ">> \o Display(rec.args)

\* the console line of a record, lines 141 and 143
ConsoleLine(rec, width, pb) ==
    Line(IF pb # None THEN "above" ELSE "stdout", pb, "log",
         console_format(rec, width))

\* lines 140-146: the line is formatted and written under the guard
ConsolePrint(t) ==
    /\ pc[t] = "c_print"
    /\ pbHolder' = unlock(pbHolder)
    /\ IF op[t].arg.args = "panics"
       THEN /\ pbPoisoned' = TRUE
            /\ pc' = [pc EXCEPT ![t] = "panicked"]
            /\ UNCHANGED lines
       ELSE /\ lines' = [lines EXCEPT ![t] =
                           Append(@, ConsoleLine(op[t].arg, max_width[t], PROGRESS_BAR))]
            /\ pc' = [pc EXCEPT ![t] = ToSentry(t, op[t].arg)]
            /\ UNCHANGED pbPoisoned
    /\ UNCHANGED <<envVars, loggerVars, widthVars, PROGRESS_BAR, lastCell,
                   logVars, finished, op, max_width, pending, hints, result,
                   client, scope, stdinReads, input, crumbs, flow, calls>>

\* line 158: LOG.write().unwrap()
SentryLock(t) ==
    /\ pc[t] = "s_lock"
    /\ logHolder = None
    /\ IF logPoisoned
       THEN /\ pc' = [pc EXCEPT ![t] = "panicked"]
            /\ UNCHANGED logHolder
       ELSE /\ logHolder' = t
            /\ pc' = [pc EXCEPT ![t] = "s_push"]
    /\ UNCHANGED <<envVars, loggerVars, widthVars, pbVars, LOG, logPoisoned,
                   nextId, forwarded, finished, op, max_width, pending, lines,
                   hints, result, client, scope, stdinReads, input, crumbs, flow, calls>>

\* lines 159-173: the breadcrumb is built and pushed under the guard
SentryPush(t) ==
    /\ pc[t] = "s_push"
    /\ logHolder' = unlock(logHolder)
    /\ IF op[t].arg.args = "panics"
       THEN /\ logPoisoned' = TRUE
            /\ pc' = [pc EXCEPT ![t] = "panicked"]
            /\ UNCHANGED <<LOG, nextId, crumbs>>
       ELSE /\ LOG' = Append(LOG, Breadcrumb(op[t].arg, nextId))
            /\ crumbs' = [crumbs EXCEPT ![t] = Append(@, Breadcrumb(op[t].arg, nextId))]
            /\ nextId' = nextId + 1
            /\ pc' = [pc EXCEPT ![t] = "done"]
            /\ UNCHANGED logPoisoned
    /\ UNCHANGED <<envVars, loggerVars, widthVars, pbVars, forwarded,
                   finished, op, max_width, pending, lines, hints, result,
                   client, scope, stdinReads, input, flow, calls>>

----------------------------------------------------------------------------
(* The capture flow: capture_error, capture_anyhow, capture_panic *)

\* Metadata.chip and Metadata.probe: present or absent
Metadatas == [chip : BOOLEAN, probe : BOOLEAN]
Uuids == {"u1"}
Transports == {"sent", "failed"}

\* tags that are set whether or not the metadata has them
set_metadata_both(metadata) == {"chip", "probe"}

\* lines 225-236: the tags set_metadata puts on the scope
set_metadata(metadata) ==
    (IF metadata.chip THEN {"chip"} ELSE {}) \cup
    (IF metadata.probe THEN {"probe"} ELSE {})

\* the set_tag calls that put these tags on the scope, in the order of lines 227-234
TagSteps(tags) ==
    (IF "chip" \in tags THEN <<"chip">> ELSE <<>>) \o
    (IF "probe" \in tags THEN <<"probe">> ELSE <<>>)

\* a capture function is called: sentry::init and set_metadata
capture(t, fn, metadata) ==
    /\ fn \in CaptureFns
    /\ Start(t, fn, metadata)
    /\ client' = [client EXCEPT ![t] = TRUE]
    /\ scope' = [scope EXCEPT ![t] = set_metadata(metadata)]
    /\ flow' = [flow EXCEPT ![t] = <<"init">> \o TagSteps(set_metadata(metadata))]
    /\ pc' = [pc EXCEPT ![t] = "k_lock"]
    /\ UNCHANGED <<envVars, loggerVars, widthVars, pbVars, logVars, finished,
                   max_width, pending, lines, hints, result, stdinReads, input,
                   crumbs>>

\* a drain that leaves in the vector what it yields
drained_keeps(v) == v

\* what log_guard.drain(..) leaves in the vector
drained(v) == <<>>

\* a drain iterator that yields from the back
drain_next_back(p) == p[Len(p)]

\* the breadcrumb the drain iterator yields next
drain_next(p) == Head(p)

\* what the drain iterator has still to yield after that
drain_rest(p) == Tail(p)

\* send_logs, lines 196-198: LOG.write().unwrap() and log_guard.drain(..)
DrainLock(t) ==
    /\ pc[t] = "k_lock"
    /\ logHolder = None
    /\ IF logPoisoned
       THEN \* the panic unwinds through the capture function and drops _guard
            /\ pc' = [pc EXCEPT ![t] = "panicked"]
            /\ client' = [client EXCEPT ![t] = dropped(@)]
            /\ UNCHANGED <<logHolder, LOG, pending, flow>>
       ELSE /\ logHolder' = t
            /\ pending' = [pending EXCEPT ![t] = LOG]
            /\ LOG' = drained(LOG)
            /\ flow' = [flow EXCEPT ![t] = Append(@, "drain")]
            /\ pc' = [pc EXCEPT ![t] = "k_fwd"]
            /\ UNCHANGED client
    /\ UNCHANGED <<envVars, loggerVars, widthVars, pbVars, logPoisoned, nextId,
                   forwarded, finished, op, max_width, lines, hints, result,
                   scope, stdinReads, input, crumbs, calls>>

\* send_logs, line 199: the next breadcrumb goes to sentry::add_breadcrumb
Forward(t) ==
    /\ pc[t] = "k_fwd"
    /\ pending[t] # <<>>
    /\ forwarded' = Append(forwarded, drain_next(pending[t]))
    /\ crumbs' = [crumbs EXCEPT ![t] = Append(@, drain_next(pending[t]))]
    /\ flow' = [flow EXCEPT ![t] = Append(@, "forward")]
    /\ pending' = [pending EXCEPT ![t] = drain_rest(@)]
    /\ UNCHANGED <<envVars, loggerVars, widthVars, pbVars, LOG, logHolder,
                   logPoisoned, nextId, finished, pc, op, max_width, lines, hints,
                   result, client, scope, stdinReads, input, calls>>

\* send_logs returns (the guard is dropped) and the event is captured
Submit(t, uuid, transport) ==
    /\ pc[t] = "k_fwd"
    /\ pending[t] = <<>>
    /\ logHolder' = unlock(logHolder)
    /\ result' = [result EXCEPT ![t] = [uuid |-> uuid, transport |-> transport]]
    /\ flow' = [flow EXCEPT ![t] = Append(@, "submit")]
    /\ pc' = [pc EXCEPT ![t] = "p_try"]
    /\ UNCHANGED <<envVars, loggerVars, widthVars, pbVars, LOG, logPoisoned,
                   nextId, forwarded, finished, op, max_width, pending, lines,
                   hints, client, scope, stdinReads, input, crumbs, calls>>

----------------------------------------------------------------------------
(* ask_to_log_crash *)

CR == "\r"
LF == "\n"

\* what read_line can put into the buffer
StdinLines ==
    { <<>>, <<LF>>, <<"y", LF>>, <<"Y", "E", "S", LF>>, <<"y", "e", CR, LF>>,
      <<"y", "e", "s">>, <<"n", LF>>, <<"n", "o", LF>>, <<"y", "e", "s", "!", LF>>,
      <<"m", "a", "y", "b", "e", LF>>, <<"t", "r", "u", "e", LF>>,
      <<"N", "o", CR, LF>>, <<"y", "E", LF>>, <<CR, LF>>, <<"y", CR>> }
StdinReads == [ok : {TRUE}, line : StdinLines] \cup {[ok |-> FALSE, line |-> <<>>]}

\* str::find('\n'): the index before the first newline, or the whole length
RECURSIVE find_newline(_, _)
find_newline(out, i) ==
    IF i > Len(out) THEN Len(out) + 1
    ELSE IF out[i] = LF THEN i ELSE find_newline(out, i + 1)

\* a truncation at the first newline that leaves a carriage return before it
text_lf_only(out) == SubSeq(out, 1, find_newline(out, 1) - 1)

\* text, lines 287-292: truncate at the first newline and a carriage return before it
text(out) ==
    LET newline == find_newline(out, 1)
    IN  IF newline > Len(out) THEN out
        ELSE IF newline > 1 /\ out[newline - 1] = CR
             THEN SubSeq(out, 1, newline - 2)
             ELSE SubSeq(out, 1, newline - 1)

\* char::to_lowercase on the letters that occur
lower(c) ==
    CASE c = "Y" -> "y" [] c = "E" -> "e" [] c = "S" -> "s"
      [] c = "N" -> "n" [] c = "O" -> "o" [] c = "T" -> "t"
      [] OTHER -> c

\* str::to_lowercase
to_lowercase(str) == [i \in 1..Len(str) |-> lower(str[i])]

\* lines 317-330: the answer read from the line
answer(read) ==
    IF read.ok
    THEN LET s == to_lowercase(text(read.line))
         IN  IF s = <<>> THEN FALSE
             ELSE IF starts_with(<<"y", "e", "s">>, s) THEN TRUE
             ELSE IF starts_with(<<"n", "o">>, s) THEN FALSE
             ELSE FALSE
    ELSE FALSE

\* an override that counts only when it reads "true"
override_true_only(var) == var.set /\ var.value = StrTrue

\* an override that counts only when it reads "true" or "false"
override_strict(var) == var.set /\ var.value \in {StrTrue, StrFalse}

\* line 299: std::env::var("PROBE_RS_SENTRY") is Ok
override_present(var) == var.set

\* ask_to_log_crash is called, lines 299-300: the override decides, or the hints start
ask_to_log_crash(t) ==
    /\ Start(t, "ask_to_log_crash", None)
    /\ IF override_present(PROBE_RS_SENTRY)
       THEN /\ result' = [result EXCEPT ![t] = (PROBE_RS_SENTRY.value = StrTrue)]
            /\ pc' = [pc EXCEPT ![t] = "done"]
            /\ UNCHANGED hints
       ELSE /\ hints' = [hints EXCEPT ![t] = 3]
            /\ pc' = [pc EXCEPT ![t] = "p_try"]
            /\ UNCHANGED result
    /\ UNCHANGED <<envVars, loggerVars, widthVars, pbVars, logVars, finished,
                   max_width, pending, lines, client, scope, stdinReads, input, crumbs, flow>>

\* lines 315-334: the prompt, the line read from stdin, the answer, the empty line
Prompt(t, read) ==
    /\ pc[t] = "q_read"
    /\ lines' = [lines EXCEPT ![t] =
                   @ \o <<Line("stdout", None, "prompt", ""),
                          Line("stdout", None, "newline", "")>>]
    /\ stdinReads' = [stdinReads EXCEPT ![t] = @ + 1]
    /\ input' = [input EXCEPT ![t] = read]
    /\ result' = [result EXCEPT ![t] = answer(read)]
    /\ pc' = [pc EXCEPT ![t] = "done"]
    /\ UNCHANGED <<envVars, loggerVars, widthVars, pbVars, logVars, finished,
                   op, max_width, pending, hints, client, scope, crumbs, flow, calls>>

----------------------------------------------------------------------------
(* The next-state relation *)

\* the call has returned, or its panic has unwound the thread's stack
Return(t) ==
    /\ pc[t] \in {"done", "panicked"}
    /\ pc' = [pc EXCEPT ![t] = "idle"]
    /\ op' = [op EXCEPT ![t] = [name |-> "none", arg |-> None]]
    /\ max_width' = [max_width EXCEPT ![t] = 0]
    /\ pending' = [pending EXCEPT ![t] = <<>>]
    /\ lines' = [lines EXCEPT ![t] = <<>>]
    /\ hints' = [hints EXCEPT ![t] = 0]
    /\ result' = [result EXCEPT ![t] = None]
    /\ client' = [client EXCEPT ![t] = FALSE]
    /\ scope' = [scope EXCEPT ![t] = {}]
    /\ stdinReads' = [stdinReads EXCEPT ![t] = 0]
    /\ input' = [input EXCEPT ![t] = None]
    /\ crumbs' = [crumbs EXCEPT ![t] = <<>>]
    /\ flow' = [flow EXCEPT ![t] = <<>>]
    /\ UNCHANGED <<envVars, loggerVars, widthVars, pbVars, logVars, finished,
                   calls>>

InitLevels == {NoLevel} \cup {SomeLevel(l) : l \in Levels}

\* the steps a thread takes inside the call it is running
Step(t) ==
    \/ CellLock(t)
    \/ CellStore(t)
    \/ TryWrite(t)
    \/ WriteLocked(t)
    \/ WritePoisoned(t)
    \/ WidthLoad(t)
    \/ WidthStore(t)
    \/ ConsoleLock(t)
    \/ ConsolePrint(t)
    \/ SentryLock(t)
    \/ SentryPush(t)
    \/ DrainLock(t)
    \/ Forward(t)
    \/ \E u \in Uuids, tr \in Transports : Submit(t, u, tr)
    \/ Return(t)

(* Spec: two threads call the facility concurrently.  $RUST_LOG is unset  *)
(* and init is given no level, so that the console sink accepts Warn and  *)
(* the sentry sink Debug.                                                 *)
SpecRecords == [level : {Warn, Debug}, target : {Core}, args : Args]
SpecMetadatas == {[chip |-> TRUE, probe |-> FALSE]}

Next ==
    \/ \E t \in Threads : init(t, NoLevel)
    \/ \E t \in Threads, w \in Widgets : set_progress_bar(t, w)
    \/ \E t \in Threads : clear_progress_bar(t)
    \/ \E w \in Widgets : Finish(w)
    \/ \E t \in Threads, m \in Messages : println(t, m)
    \/ \E t \in Threads, m \in Messages : eprintln(t, m)
    \/ \E t \in Threads, rec \in SpecRecords : log(t, rec)
    \/ \E t \in Threads, fn \in CaptureFns, m \in SpecMetadatas : capture(t, fn, m)
    \/ \E t \in Threads : Step(t)

InitSpec ==
    /\ RUST_LOG = [set |-> FALSE, dirs |-> <<>>]
    /\ PROBE_RS_SENTRY = [set |-> FALSE, value |-> <<>>]
    /\ InitStatics
    /\ IdleLocals

Spec == InitSpec /\ [][Next]_vars

(* SpecDispatch: one thread installs the logger, for any $RUST_LOG and any  *)
(* level, and logs records of every level and target.                       *)
MaxDispatchCalls == 3
Main == "t1"

NextDispatch ==
    \/ calls < MaxDispatchCalls /\ \E level \in InitLevels : init(Main, level)
    \/ calls < MaxDispatchCalls /\ \E rec \in Records : log(Main, rec)
    \/ WidthLoad(Main)
    \/ WidthStore(Main)
    \/ ConsoleLock(Main)
    \/ ConsolePrint(Main)
    \/ SentryLock(Main)
    \/ SentryPush(Main)
    \/ Return(Main)

InitDispatch ==
    /\ RUST_LOG \in RustLogValues
    /\ PROBE_RS_SENTRY = [set |-> FALSE, value |-> <<>>]
    /\ InitStatics
    /\ IdleLocals

SpecDispatch == InitDispatch /\ [][NextDispatch]_vars

(* SpecConsent: threads ask for consent, for any $PROBE_RS_SENTRY, while a  *)
(* progress bar may be registered.                                          *)
NextConsent ==
    \/ \E t \in Threads : ask_to_log_crash(t)
    \/ \E t \in Threads, w \in Widgets : set_progress_bar(t, w)
    \/ \E t \in Threads : CellLock(t)
    \/ \E t \in Threads : CellStore(t)
    \/ \E t \in Threads : TryWrite(t)
    \/ \E t \in Threads : WriteLocked(t)
    \/ \E t \in Threads, read \in StdinReads : Prompt(t, read)
    \/ \E t \in Threads : Return(t)

InitConsent ==
    /\ RUST_LOG = [set |-> FALSE, dirs |-> <<>>]
    /\ PROBE_RS_SENTRY \in SentryValues
    /\ InitStatics
    /\ IdleLocals

SpecConsent == InitConsent /\ [][NextConsent]_vars

(* SpecWidth: two threads log records whose targets differ in length, so    *)
(* that their calls of max_target_width interleave.                         *)
WidthRecords == [level : {Warn}, target : Targets, args : {"text"}]

NextWidth ==
    \/ \E t \in Threads : init(t, NoLevel)
    \/ \E t \in Threads, rec \in WidthRecords : log(t, rec)
    \/ \E t \in Threads : WidthLoad(t)
    \/ \E t \in Threads : WidthStore(t)
    \/ \E t \in Threads : ConsoleLock(t)
    \/ \E t \in Threads : ConsolePrint(t)
    \/ \E t \in Threads : SentryLock(t)
    \/ \E t \in Threads : SentryPush(t)
    \/ \E t \in Threads : Return(t)

SpecWidth == InitSpec /\ [][NextWidth]_vars

(* SpecLive: two threads call the facility concurrently, and the step a     *)
(* thread takes under a lock completes: the records logged are ones whose   *)
(* formatting does not panic.  A thread inside a call is scheduled again    *)
(* and again, so the step it can take is taken.                             *)
MaxLiveCalls == 4
LiveRecords == [level : {Warn}, target : {Core}, args : {"text"}]

\* the steps a thread takes inside the call it is running, no lock being poisoned
StepLive(t) ==
    \/ CellLock(t)
    \/ CellStore(t)
    \/ TryWrite(t)
    \/ WriteLocked(t)
    \/ WidthLoad(t)
    \/ WidthStore(t)
    \/ ConsoleLock(t)
    \/ ConsolePrint(t)
    \/ SentryLock(t)
    \/ SentryPush(t)
    \/ DrainLock(t)
    \/ Forward(t)
    \/ \E u \in Uuids, tr \in Transports : Submit(t, u, tr)
    \/ Return(t)

NextLive ==
    \/ calls < MaxLiveCalls /\ \E t \in Threads : init(t, NoLevel)
    \/ calls < MaxLiveCalls /\ \E t \in Threads, w \in Widgets : set_progress_bar(t, w)
    \/ calls < MaxLiveCalls /\ \E t \in Threads : clear_progress_bar(t)
    \/ calls < MaxLiveCalls /\ \E t \in Threads, m \in Messages : println(t, m)
    \/ calls < MaxLiveCalls /\ \E t \in Threads, m \in Messages : eprintln(t, m)
    \/ calls < MaxLiveCalls /\ \E t \in Threads, rec \in LiveRecords : log(t, rec)
    \/ calls < MaxLiveCalls /\ \E t \in Threads, fn \in CaptureFns, m \in SpecMetadatas :
                                  capture(t, fn, m)
    \/ \E t \in Threads : StepLive(t)

SpecLive ==
    /\ InitSpec
    /\ [][NextLive]_vars
    /\ \A t \in Threads : WF_vars(StepLive(t))

----------------------------------------------------------------------------
(* The breadcrumb buffer *)

\* the places a breadcrumb with this timestamp is held at
Places(id) ==
    {<<"forwarded", i>> : i \in {j \in 1..Len(forwarded) : forwarded[j].timestamp = id}}
    \cup {<<"LOG", i>> : i \in {j \in 1..Len(LOG) : LOG[j].timestamp = id}}
    \cup UNION {{<<t, i>> : i \in {j \in 1..Len(pending[t]) : pending[t][j].timestamp = id}}
                : t \in Threads}

\* C1: every breadcrumb recorded so far is in exactly one place: it has been
\* forwarded once by one drain, or it is held by the one drain that took it
\* out of the buffer, or it is still in the buffer; none is forwarded twice
\* and none is lost, however log calls and capture flows interleave.
C1_ExactlyOnce ==
    \A id \in 1..(nextId - 1) : Cardinality(Places(id)) = 1

\* C1 witness: two capture flows are running, one has forwarded a breadcrumb
\* and another breadcrumb recorded after that drain is in the buffer.
C1_Witness ==
    /\ \A t \in Threads : op[t].name \in CaptureFns
    /\ Len(forwarded) >= 1
    /\ Len(LOG) >= 1

\* the timestamps of a sequence of breadcrumbs
Timestamps(seq) == [i \in 1..Len(seq) |-> seq[i].timestamp]

\* C2: when a drain has forwarded all it took, the breadcrumbs forwarded so
\* far are all the breadcrumbs recorded so far, in the order they were
\* recorded, this drain has forwarded exactly the ones recorded since the
\* drain before it, and the buffer is empty.
C2_DrainInOrder ==
    \A t \in Threads :
        (pc[t] = "k_fwd" /\ pending[t] = <<>>) =>
            /\ LOG = <<>>
            /\ Timestamps(forwarded) = [i \in 1..(nextId - 1) |-> i]
            /\ crumbs[t] = SubSeq(forwarded, Len(forwarded) - Len(crumbs[t]) + 1,
                                  Len(forwarded))

\* C2 witness: a flow has drained and forwarded two breadcrumbs, and the
\* drain of a second flow that follows it has nothing to forward.
C2_Witness ==
    \E t, u \in Threads :
        /\ pc[t] = "k_fwd" /\ pending[t] = <<>> /\ crumbs[t] = <<>>
        /\ pc[u] = "done" /\ op[u].name \in CaptureFns /\ Len(crumbs[u]) = 2

----------------------------------------------------------------------------
(* The progress cell *)

\* the last line the running call of t has written, after the step
LastLine(t) == lines'[t][Len(lines'[t])]

\* the step is a write of println or eprintln by thread t
Wrote(t) ==
    /\ Len(lines'[t]) = Len(lines[t]) + 1
    /\ LastLine(t).kind \in {"message", "uuid", "hint"}

\* C3 as stated: while a bar is registered and not finished, and no
\* clear_progress_bar is under way, every line println or eprintln writes
\* goes through the bar's print-above path.
C3_Original ==
    [][\A t \in Threads :
         ( /\ Wrote(t)
           /\ PROGRESS_BAR \in Widgets /\ PROGRESS_BAR \notin finished
           /\ \A u \in Threads : op[u].name # "clear_progress_bar" )
         => (LastLine(t).route = "above" /\ LastLine(t).widget = PROGRESS_BAR)]_vars

\* C3 as amended: while the bar of the last set_progress_bar (with no
\* clear_progress_bar after it) is not finished, every println or eprintln
\* whose try_write obtained the lock writes its line above that bar.
C3_LockedWriteAbove ==
    [][\A t \in Threads :
         ( /\ pc[t] = "p_locked" /\ Wrote(t)
           /\ lastCell \in Widgets /\ lastCell \notin finished )
         => (LastLine(t).route = "above" /\ LastLine(t).widget = lastCell)]_vars

\* C3 witness: a println that took the lock has written its line above the bar.
C3_Witness ==
    \E t \in Threads :
        /\ pc[t] = "done" /\ op[t].name = "println"
        /\ Len(lines[t]) = 1 /\ lines[t][1].route = "above"
        /\ lines[t][1].widget = PROGRESS_BAR

\* the stream of the channel a public call writes on
Stream(name) == IF name = "eprintln" THEN "stderr" ELSE "stdout"

\* C4: a println or eprintln that is about to try the lock can always take its
\* step, and when the lock is held by another thread or is poisoned that step
\* writes the line directly to the stream of the call's own channel, without
\* a panic, and println/eprintln return.
C4_NeverWaits ==
    /\ [](\A t \in Threads : pc[t] = "p_try" => ENABLED TryWrite(t))
    /\ [][\A t \in Threads :
            ( /\ \/ pc[t] = "p_try" /\ pbHolder # None
                 \/ pc[t] = "p_poisoned"
              /\ lines'[t] # lines[t] )
            => /\ Wrote(t)
               /\ LastLine(t).route = Stream(op[t].name)
               /\ LastLine(t).widget = None
               /\ pc'[t] # "panicked"
               /\ op[t].name \in {"println", "eprintln"} => pc'[t] = "done"]_vars

\* C4 witness: an eprintln has written directly to stderr and returned while
\* another thread holds the lock of a cell with an unfinished bar.
C4_Witness ==
    \E t \in Threads :
        /\ pc[t] = "done" /\ op[t].name = "eprintln"
        /\ Len(lines[t]) = 1 /\ lines[t][1].route = "stderr"
        /\ pbHolder \notin {None, t}
        /\ PROGRESS_BAR \in Widgets /\ PROGRESS_BAR \notin finished

\* C5: the cell holds one bar or none, and whenever no set_progress_bar or
\* clear_progress_bar is between taking the lock and its assignment, what the
\* cell holds is the argument of the last of these calls that took the lock:
\* the bar of the last set, or nothing after a clear.
C5_LastSetOrClear ==
    /\ PROGRESS_BAR \in Widgets \cup {None}
    /\ (pbHolder = None \/ pc[pbHolder] # "a_store") => PROGRESS_BAR = lastCell

\* C5 witness: a set_progress_bar has replaced the bar another one registered.
C5_Witness ==
    \E t, u \in Threads :
        /\ pc[t] = "done" /\ op[t].name = "set_progress_bar" /\ op[t].arg = "w2"
        /\ pc[u] = "done" /\ op[u].name = "set_progress_bar" /\ op[u].arg = "w1"
        /\ PROGRESS_BAR = "w2" /\ pbHolder = None

----------------------------------------------------------------------------
(* The two sinks *)

\* C6: a log call that returns, made once the logger is installed, has
\* appended one breadcrumb if the record's level is Debug or more severe and
\* none otherwise, and has written one console line if the console filter
\* accepts the record and none otherwise, each whatever the other sink does;
\* after init(Some(Info)) with no $RUST_LOG an Info record gets both and a
\* Trace record neither.
C6_BothSinks ==
    \A t \in Threads :
        (pc[t] = "done" /\ op[t].name = "log" /\ logger.installed) =>
            LET rec == op[t].arg
            IN  /\ Len(crumbs[t]) = (IF rec.level \in {Error, Warn, Info, Debug} THEN 1 ELSE 0)
                /\ \A i \in 1..Len(crumbs[t]) : crumbs[t][i].category = rec.target
                /\ Len(lines[t]) = (IF enabled(logger.console, rec.level, rec.target)
                                    THEN 1 ELSE 0)
                /\ logger.console = <<Directive(NoName, Info)>> =>
                      /\ rec.level = Info => (Len(lines[t]) = 1 /\ Len(crumbs[t]) = 1)
                      /\ rec.level = Trace => (lines[t] = <<>> /\ crumbs[t] = <<>>)

\* the console sink takes a record of this level and target
ConsoleTakes(l, target) ==
    ShareableLogger_log(logger.console, [level |-> l, target |-> target])

\* the level init is given, or Warn
Configured(level) == IF level.some THEN level.level ELSE Warn

Rules(target) ==
    {i \in 1..Len(RUST_LOG.dirs) :
        \/ RUST_LOG.dirs[i].name = NoName
        \/ starts_with(target, RUST_LOG.dirs[i].name)}

\* the level of the rule with the longest module name, the later of equals
RuleLevel(target) ==
    LET best == CHOOSE i \in Rules(target) :
                  \A j \in Rules(target) :
                     \/ Len(RUST_LOG.dirs[j].name) < Len(RUST_LOG.dirs[i].name)
                     \/ /\ Len(RUST_LOG.dirs[j].name) = Len(RUST_LOG.dirs[i].name)
                        /\ j <= i
    IN  RUST_LOG.dirs[best].level

----------------------------------------------------------------------------
(* The capture flow *)

\* the running capture call of t has printed one line, the acknowledgment with
\* the identifier the submission returned, with println
Acknowledged(t) ==
    /\ Len(lines[t]) = 1
    /\ lines[t][1].kind = "uuid"
    /\ lines[t][1].text = result[t].uuid
    /\ lines[t][1].route \in {"above", "stdout"}

\* C8 as stated: when a capture call that drained breadcrumbs has returned,
\* the buffer is empty and one acknowledgment line has been printed.
C8_Original ==
    \A t \in Threads :
        (pc[t] = "done" /\ op[t].name \in CaptureFns /\ crumbs[t] # <<>>) =>
            (LOG = <<>> /\ Acknowledged(t))

\* C8 as amended: when a capture call that drained breadcrumbs has returned,
\* the buffer holds no breadcrumb recorded before its drain (only ones that
\* other threads recorded after it), every drained breadcrumb has been
\* forwarded, and one acknowledgment line with the report identifier has been
\* printed with println, whether the submission was sent or failed.
C8_DrainedAndAcknowledged ==
    \A t \in Threads :
        (pc[t] = "done" /\ op[t].name \in CaptureFns /\ crumbs[t] # <<>>) =>
            /\ \A i \in 1..Len(LOG) :
                  LOG[i].timestamp > crumbs[t][Len(crumbs[t])].timestamp
            /\ \A i \in 1..Len(crumbs[t]) :
                  \E j \in 1..Len(forwarded) : forwarded[j] = crumbs[t][i]
            /\ Acknowledged(t)

\* C8 witness: a capture call over three breadcrumbs has returned after a
\* failed submission: the buffer is empty and the acknowledgment is printed.
C8_Witness ==
    \E t \in Threads :
        /\ pc[t] = "done" /\ op[t].name \in CaptureFns
        /\ Len(crumbs[t]) = 3 /\ LOG = <<>>
        /\ result[t].transport = "failed" /\ Acknowledged(t)

\* C9: no capture call panics.
C9_NoPanic ==
    \A t \in Threads : op[t].name \in CaptureFns => pc[t] # "panicked"

----------------------------------------------------------------------------
(* Consent *)

\* C10: with $PROBE_RS_SENTRY set, ask_to_log_crash returns true if the value
\* is "true" and false for any other value, and has then written no line and
\* read nothing from stdin.
C10_Override ==
    \A t \in Threads :
        (pc[t] = "done" /\ op[t].name = "ask_to_log_crash" /\ PROBE_RS_SENTRY.set) =>
            /\ result[t] = (PROBE_RS_SENTRY.value = <<"t", "r", "u", "e">>)
            /\ lines[t] = <<>>
            /\ stdinReads[t] = 0

\* C10 witness: the override is "1": the answer is false, with no prompt.
C10_Witness ==
    \E t \in Threads :
        /\ pc[t] = "done" /\ op[t].name = "ask_to_log_crash"
        /\ PROBE_RS_SENTRY.set /\ PROBE_RS_SENTRY.value = <<"1">>
        /\ result[t] = FALSE /\ lines[t] = <<>>

\* the running ask_to_log_crash of t has gone through the interactive prompt:
\* the three explanation lines, the prompt, one read of stdin, the empty line
Prompted(t) ==
    /\ stdinReads[t] = 1
    /\ Len(lines[t]) = 5
    /\ \A i \in 1..3 : lines[t][i].kind = "hint"
    /\ lines[t][4].kind = "prompt"
    /\ lines[t][5].kind = "newline"

\* C11 as stated: an ask_to_log_crash that has returned has skipped the
\* prompt exactly when $PROBE_RS_SENTRY reads "true" or "false"; with the
\* variable absent or holding any other value it has prompted.
C11_Original ==
    \A t \in Threads :
        (pc[t] = "done" /\ op[t].name = "ask_to_log_crash") =>
            IF PROBE_RS_SENTRY.set /\ PROBE_RS_SENTRY.value \in {StrTrue, StrFalse}
            THEN stdinReads[t] = 0 /\ lines[t] = <<>>
            ELSE Prompted(t)

\* C11 as amended: ask_to_log_crash skips the prompt whenever
\* $PROBE_RS_SENTRY is present, whatever its value: it then never prints the
\* explanation or the prompt and never reads stdin; only when the variable
\* is absent does it prompt, and then it has printed the explanation and the
\* prompt and read stdin once by the time it returns.
C11_PresentSkips ==
    \A t \in Threads :
        op[t].name = "ask_to_log_crash" =>
            IF PROBE_RS_SENTRY.set
            THEN pc[t] = "done" /\ stdinReads[t] = 0 /\ lines[t] = <<>>
            ELSE pc[t] = "done" => Prompted(t)

\* C11 witness: with the variable absent the call has prompted, read "ye\r\n"
\* and returned true.
C11_Witness ==
    \E t \in Threads :
        /\ pc[t] = "done" /\ op[t].name = "ask_to_log_crash"
        /\ ~PROBE_RS_SENTRY.set
        /\ Prompted(t) /\ result[t] = TRUE

\* a line without its line ending: a final newline, and a carriage return before it
StripEnding(line) ==
    IF line # <<>> /\ line[Len(line)] = LF
    THEN IF Len(line) > 1 /\ line[Len(line) - 1] = CR
         THEN SubSeq(line, 1, Len(line) - 2)
         ELSE SubSeq(line, 1, Len(line) - 1)
    ELSE line

\* a non-empty prefix of "yes", in any letter case
IsYesPrefix(s) ==
    /\ Len(s) \in 1..3
    /\ \A i \in 1..Len(s) : s[i] \in <<{"y", "Y"}, {"e", "E"}, {"s", "S"}>>[i]

\* C12: an ask_to_log_crash that prompted returns true exactly when stdin
\* was read and the line, without its line ending, is a non-empty prefix of
\* "yes" in any letter case; it returns false for an empty line, a prefix of
\* "no", any other line, and a failed read.
C12_FailClosed ==
    \A t \in Threads :
        (pc[t] = "done" /\ op[t].name = "ask_to_log_crash" /\ stdinReads[t] = 1) =>
            /\ result[t] = (input[t].ok /\ IsYesPrefix(StripEnding(input[t].line)))
            /\ ~input[t].ok => result[t] = FALSE
            /\ input[t].line \in {<<>>, <<LF>>, <<"n", LF>>, <<"n", "o", LF>>,
                                  <<"m", "a", "y", "b", "e", LF>>,
                                  <<"t", "r", "u", "e", LF>>} => result[t] = FALSE
            /\ (input[t].ok /\ input[t].line \in {<<"y", LF>>, <<"y", "e", CR, LF>>,
                                                  <<"Y", "E", "S", LF>>})
                  => result[t] = TRUE

\* C12 witness: the line read is "YES\n" and the answer is true.
C12_Witness ==
    \E t \in Threads :
        /\ pc[t] = "done" /\ op[t].name = "ask_to_log_crash" /\ stdinReads[t] = 1
        /\ input[t] = [ok |-> TRUE, line |-> <<"Y", "E", "S", LF>>]
        /\ result[t] = TRUE

----------------------------------------------------------------------------
(* init *)

\* the sinks a record reaches when log::log! is called with logger lg
\* installed and the global maximum level maxl
Reaches(lg, maxl, rec) ==
    IF rec.level <= maxl /\ lg.installed /\ rec.level <= max_level(lg)
    THEN (IF ShareableLogger_log(lg.console, rec) THEN {"console"} ELSE {})
         \cup (IF ShareableLogger_log(lg.sentry, rec) THEN {"sentry"} ELSE {})
    ELSE {}

\* C13: the first call of init installs the dispatcher with its two sinks and
\* returns; every later call panics and changes nothing about where a
\* record goes: the installed logger is the same and every record reaches
\* the same sinks as before the call.
C13_InitOnce ==
    [][\A t \in Threads :
         (op[t].name = "none" /\ op'[t].name = "init") =>
            IF logger.installed
            THEN /\ pc'[t] = "panicked"
                 /\ logger' = logger
                 /\ \A rec \in Records :
                       Reaches(logger', MAX_LOG_LEVEL_FILTER', rec)
                          = Reaches(logger, MAX_LOG_LEVEL_FILTER, rec)
            ELSE /\ pc'[t] = "done"
                 /\ logger'.installed
                 /\ logger'.console # <<>> /\ logger'.sentry # <<>>]_vars

----------------------------------------------------------------------------
(* The width register *)

\* the step is the return of a max_target_width call made by thread t
Observed(t) == pc[t] = "c_store" /\ pc'[t] = "c_lock"

\* C14: when max_target_width is called time after time by one thread, every
\* call returns a width that is at least the width the call before it
\* returned and at least the length of its own target.
C14_Monotonic ==
    [][\A t \in Threads :
         Observed(t) =>
            /\ max_width'[t] >= lastWidth
            /\ max_width'[t] >= Len(op[t].arg.target)]_vars

\* C14 witness: after a call with the target "core::f" the call with the
\* shorter target "core" has returned 7.
C14_Witness ==
    /\ pc[Main] = "c_lock"
    /\ op[Main].arg.target = Core
    /\ max_width[Main] = 7
    /\ lastWidth = 7

\* C15: with concurrent callers the register never decreases, and when a
\* call of max_target_width returns the register is at least the length of
\* the call's target.
C15_NeverDecreases ==
    [][/\ MAX_WINDOW_WIDTH' >= MAX_WINDOW_WIDTH
       /\ \A t \in Threads :
            Observed(t) => MAX_WINDOW_WIDTH' >= Len(op[t].arg.target)]_vars

----------------------------------------------------------------------------
(* The console sink and the progress cell *)

\* C16: a line the console sink writes follows the write rule of the
\* progress cell: it goes above the bar exactly when a bar is registered and
\* not finished, and directly to stdout when no bar is registered or the
\* registered bar is finished.
C16_WriteRule ==
    [][\A t \in Threads :
         (pc[t] = "c_print" /\ lines'[t] # lines[t]) =>
            IF PROGRESS_BAR # None /\ PROGRESS_BAR \notin finished
            THEN LastLine(t).route = "above" /\ LastLine(t).widget = PROGRESS_BAR
            ELSE LastLine(t).route = "stdout" /\ LastLine(t).widget = None]_vars

----------------------------------------------------------------------------
(* The order of a capture flow *)

\* the steps of a capture flow with this metadata that forwards n breadcrumbs
Plan(metadata, n) ==
    <<"init">>
    \o (IF metadata.chip THEN <<"chip">> ELSE <<>>)
    \o (IF metadata.probe THEN <<"probe">> ELSE <<>>)
    \o <<"drain">>
    \o [i \in 1..n |-> "forward"]
    \o <<"submit", "ack">>

IsPrefix(p, q) == Len(p) <= Len(q) /\ SubSeq(q, 1, Len(p)) = p

\* C17: at every point of a capture call the steps it has taken are the
\* first steps of: initialise the client, set the chip tag and the probe tag
\* (each only if the metadata has it), drain, forward each drained
\* breadcrumb, submit, print the acknowledgment, each once and in this
\* order; the breadcrumbs are forwarded in the order they were recorded; the
\* event is submitted only when every drained breadcrumb is forwarded; and
\* a call that has returned has taken all the steps.
C17_InOrder ==
    \A t \in Threads :
        op[t].name \in CaptureFns =>
            /\ IsPrefix(flow[t], Plan(op[t].arg, Len(crumbs[t])))
            /\ scope[t] = {k \in {"chip", "probe"} : op[t].arg[k]}
            /\ \A i \in 1..(Len(crumbs[t]) - 1) :
                  crumbs[t][i].timestamp < crumbs[t][i + 1].timestamp
            /\ (\E i \in 1..Len(flow[t]) : flow[t][i] = "submit") => pending[t] = <<>>
            /\ pc[t] = "done" => flow[t] = Plan(op[t].arg, Len(crumbs[t]))

\* C17 witness: a flow with a chip and no probe has returned after the steps
\* init, chip, drain, forward, forward, submit, ack.
C17_Witness ==
    \E t \in Threads :
        /\ pc[t] = "done" /\ op[t].name \in CaptureFns
        /\ flow[t] = <<"init", "chip", "drain", "forward", "forward", "submit", "ack">>

\* C18: a capture call holds a client handle of its own from its first step
\* until its acknowledgment is printed, and holds none once it has returned
\* or panicked; a thread that runs no capture call holds none.
C18_ScopedClient ==
    \A t \in Threads :
        /\ (op[t].name \in CaptureFns /\ pc[t] \notin {"done", "panicked"}) =>
              /\ client[t]
              /\ flow[t][1] = "init"
              /\ Cardinality({i \in 1..Len(flow[t]) : flow[t][i] = "init"}) = 1
              /\ lines[t] = <<>>
        /\ pc[t] \in {"done", "panicked", "idle"} => ~client[t]
        /\ op[t].name \notin CaptureFns => ~client[t]

\* C18 witness: a capture call has panicked in send_logs, on the poisoned
\* lock, and its client handle is released.
C18_Witness ==
    \E t \in Threads :
        /\ pc[t] = "panicked" /\ op[t].name \in CaptureFns
        /\ flow[t] = <<"init", "chip">>
        /\ ~client[t]

----------------------------------------------------------------------------
(* The format of a console line *)

\* the labels of the five levels
Label(level) ==
    <<<<"E", "R", "R", "O", "R">>, <<" ", "W", "A", "R", "N">>,
      <<" ", "I", "N", "F", "O">>, <<"D", "E", "B", "U", "G">>,
      <<"T", "R", "A", "C", "E">>>>[level]

\* the text is: lead, the label, a space, the target, spaces up to the
\* width, " > ", the message
Formatted(txt, lead, rec, width, msg) ==
    LET w == IF width > Len(rec.target) THEN width ELSE Len(rec.target)
        a == Len(lead)
    IN  /\ Len(txt) = a + 5 + 1 + w + 3 + Len(msg)
        /\ SubSeq(txt, 1, a) = lead
        /\ SubSeq(txt, a + 1, a + 5) = Label(rec.level)
        /\ txt[a + 6] = " "
        /\ SubSeq(txt, a + 7, a + 6 + Len(rec.target)) = rec.target
        /\ \A i \in (a + 7 + Len(rec.target))..(a + 6 + w) : txt[i] = " "
        /\ SubSeq(txt, a + 7 + w, a + 9 + w) = <<" ", ">", " ">>
        /\ SubSeq(txt, a + 10 + w, Len(txt)) = msg

\* the record and the width of the example
Example(t) ==
    /\ op[t].arg.level = Warn /\ op[t].arg.target = Flash /\ max_width[t] = 10

Retry13 == <<"r", "e", "t", "r", "y", " ", "1", "/", "3">>

\* C19 as stated: the console line of a log call that has returned is the
\* label, a space, the padded target, " > " and the message, with nothing
\* before the label; for Warn, "flash", "retry 1/3" and the width 10 it is
\* " WARN flash      > retry 1/3".
C19_Original ==
    \A t \in Threads :
        (pc[t] = "done" /\ op[t].name = "log" /\ lines[t] # <<>>) =>
            /\ Formatted(lines[t][1].text, <<>>, op[t].arg, max_width[t], Retry13)
            /\ Example(t) =>
                  lines[t][1].text =
                     <<" ", "W", "A", "R", "N", " ", "f", "l", "a", "s", "h",
                       " ", " ", " ", " ", " ", " ", ">", " ">> \o Retry13

\* C19 as amended: the console line is seven spaces, the label, a space, the
\* target left-aligned and padded to the current maximum width, " > " and
\* the message; for Warn, "flash", "retry 1/3" and the width 10 it is
\* "        WARN flash      > retry 1/3".
C19_Indented ==
    \A t \in Threads :
        (pc[t] = "done" /\ op[t].name = "log" /\ lines[t] # <<>>) =>
            /\ Formatted(lines[t][1].text, <<" ", " ", " ", " ", " ", " ", " ">>,
                         op[t].arg, max_width[t], Retry13)
            /\ Example(t) =>
                  lines[t][1].text =
                     <<" ", " ", " ", " ", " ", " ", " ",
                       " ", "W", "A", "R", "N", " ", "f", "l", "a", "s", "h",
                       " ", " ", " ", " ", " ", " ", ">", " ">> \o Retry13

\* C19 witness: the line of a Warn record with the target "flash", written
\* when the maximum width is 10.
C19_Witness ==
    \E t \in Threads :
        /\ pc[t] = "done" /\ op[t].name = "log" /\ Len(lines[t]) = 1
        /\ Example(t)
        /\ Len(lines[t][1].text) = 35

----------------------------------------------------------------------------
(* The two locks *)

\* thread t is inside a call of the facility
Running(t) == pc[t] \notin {"idle", "done", "panicked"}

\* thread t waits for a lock that another thread holds
Waits(t) ==
    \/ pc[t] \in {"a_lock", "c_lock"} /\ pbHolder \notin {None, t}
    \/ pc[t] \in {"s_lock", "k_lock"} /\ logHolder \notin {None, t}

\* C20: no thread holds the lock of the progress cell and the lock of the
\* breadcrumb buffer at once, and a thread holds a lock only inside the
\* call that took it; a thread inside a call can take its next step unless
\* it waits for a lock, and then the thread that holds the lock can take
\* its step; and, every step under a lock completing, every call of log,
\* set_progress_bar, clear_progress_bar, println, eprintln and of a capture
\* function returns.
C20_NoDeadlock ==
    /\ [](\A t \in Threads :
            /\ ~(pbHolder = t /\ logHolder = t)
            /\ (pbHolder = t \/ logHolder = t) => Running(t))
    /\ [](\A t \in Threads :
            Running(t) =>
               \/ ENABLED StepLive(t)
               \/ Waits(t) /\ \E u \in Threads \ {t} : Running(u) /\ ENABLED StepLive(u))
    /\ \A t \in Threads :
          (pc[t] # "idle" /\ op[t].name # "init") ~> (pc[t] = "done")

\* C20 witness: a capture flow holds the lock of the buffer while the log
\* call of the other thread waits for it.
C20_Witness ==
    \E t, u \in Threads :
        /\ pc[t] = "k_fwd" /\ logHolder = t
        /\ pc[u] = "s_lock"

====
